---- MODULE Spec2Model ----
(***************************************************************************)
(* Model of the TamaPortal subsystem of src/main.cpp (ArduinoGotchi for    *)
(* the M5StickC Plus2): the activation toggle initTamaPortal, the periodic *)
(* handleTamaPortal, the scan cycle scanAndAttackPortals with              *)
(* sendFriendlyMessage and createTamaPortalHotspot, the HTTP handlers of   *)
(* the hotspot and the message overlay of displayTama.                     *)
(*                                                                         *)
(* The firmware is one thread: a scan cycle blocks the main loop, so the   *)
(* entry points (toggle, tick, request pump, display frame) are taken only *)
(* at pc = "loop" and the steps of a cycle follow each other with nothing  *)
(* in between.  Strings are sequences of one-character strings.            *)
(***************************************************************************)
EXTENDS Integers, Sequences, FiniteSets, TLC

VARIABLES
    clock,                  \* millis()
    tamaportal_active,      \* static bool tamaportal_active
    last_portal_scan,       \* static unsigned long last_portal_scan
    received_message,       \* static String received_message
    message_display_time,   \* static unsigned long message_display_time
    hotspotCreated,         \* static bool hotspotCreated (createTamaPortalHotspot)
    tamaPortalServer,       \* WebServer*: 0 is nullptr, k the k-th instance allocated
    tamaDnsServer,          \* DNSServer*: 0 is nullptr, k the k-th instance allocated
    wifiMode,               \* the mode last set with WiFi.mode(): "OFF", "STA", "AP"
    apStarts,               \* number of WiFi.softAP() calls made so far
    pc,                     \* position of the single thread of control
    caller,                 \* who called scanAndAttackPortals: "init", "tick", "none"
    now,                    \* handleTamaPortal's local `now`
    n,                      \* scanAndAttackPortals' local `n`
    nets,                   \* the scan result WiFi.SSID(i) / WiFi.encryptionType(i) read
    i,                      \* loop index of scanAndAttackPortals (1-based)
    foundOpenNetwork,       \* scanAndAttackPortals' local
    startTime,              \* sendFriendlyMessage's local
    joinLatency,            \* the time the radio needs to join the network begun
    endpoint,               \* index into endpoints[] in sendFriendlyMessage (1-based)
    responseCode,           \* sendFriendlyMessage's local, the last POST's result
    cycleLog,               \* what the current scan cycle did, in order (its Serial log)
    serverReply,            \* status code of the last response the WebServer sent
    location,               \* the Location header of that response, "" without one
    shown,                  \* the text the last display frame drew in the overlay
    lastRequest,            \* the HTTP request the WebServer handled last
    formText,               \* what the client of the hotspot has typed into the form
    cleanIcon,              \* icon_buffer[4], set by the emulator (hal_set_lcd_icon)
    prev_clean_selected,    \* static bool prev_clean_selected (hal_handler)
    lastCall,               \* the entry point the main loop invoked last
    ranCycle,               \* whether that call ran scanAndAttackPortals
    toggleRun,              \* consecutive initTamaPortal calls since one made with
                            \* tamaportal_active = false (0: none, 1, 2)
    lastCycle,              \* how the last scan cycle since the activation ended:
                            \* "fallback" (hotspot requested), "injected", "none"
    toggles,                \* number of initTamaPortal calls made so far
    requests,               \* number of HTTP requests served so far
    cycleStartedAt,         \* millis() at the start of the last scan cycle since the
                            \* activation, -1 without one
    toggleRequested,        \* the user has asked for the activation toggle and
                            \* initTamaPortal has not been called since
    time_bypass_complete,   \* static bool time_bypass_complete (hal_handler)
    time_bypass_start,      \* static unsigned long time_bypass_start (hal_handler)
    btn_a_was_pressed,      \* static bool btn_a_was_pressed (hal_handler)
    btn_b_was_pressed,      \* static bool btn_b_was_pressed (hal_handler)
    btn_pwr_was_pressed,    \* static bool btn_pwr_was_pressed (hal_handler)
    btn_b_hold_start,       \* static unsigned long btn_b_hold_start (hal_handler)
    effects_enabled,        \* static bool effects_enabled
    sound_enabled,          \* static bool sound_enabled
    waiting_for_second_tap, \* static bool waiting_for_second_tap
    last_btn_b_press,       \* static unsigned long last_btn_b_press
    current_menu_page,      \* static int current_menu_page
    passes,                 \* number of passes of hal_handler made so far
    pwrPressedAt,           \* millis() at the last press of PWR alone, if a second
                            \* press could still make a double tap of it, else -1
    pwrDoubleTapped         \* whether the user has double-tapped PWR so far

portalVars == <<tamaportal_active, last_portal_scan>>
inboxVars  == <<received_message, message_display_time>>
hostVars   == <<hotspotCreated, tamaPortalServer, tamaDnsServer, wifiMode, apStarts>>
callVars   == <<caller, now>>
scanVars   == <<n, nets, i, foundOpenNetwork>>
sendVars   == <<startTime, joinLatency, endpoint, responseCode>>
obsVars    == <<serverReply, location, shown>>
clientVars == <<lastRequest, formText>>
iconVars   == <<cleanIcon, prev_clean_selected>>
histVars   == <<lastCall, ranCycle, toggleRun, lastCycle, cycleStartedAt, toggleRequested>>
buttonVars == <<time_bypass_complete, time_bypass_start, btn_a_was_pressed,
                btn_b_was_pressed, btn_pwr_was_pressed, btn_b_hold_start,
                effects_enabled, sound_enabled, waiting_for_second_tap,
                last_btn_b_press, current_menu_page, passes, pwrPressedAt,
                pwrDoubleTapped>>
countVars  == <<toggles, requests>>
vars == <<clock, pc, cycleLog, portalVars, inboxVars, hostVars, callVars, scanVars,
          sendVars, obsVars, clientVars, iconVars, histVars, countVars, buttonVars>>

----------------------------------------------------------------------------
(* Program constants *)

PORTAL_SCAN_INTERVAL == 30000
MESSAGE_DISPLAY_DURATION == 5000
ActivationDelay == 1500
CandidateDelay == 1000
ConnectPoll == 100
ConnectTimeout == 5000
EndpointDelay == 500
MessageLimit == 100
BypassDuration == 3500
MenuDelay == 200
HoldThreshold == 2000
HoldRearm == 5000
DoubleTapWindow == 500
FeedbackDelay == 1300             \* showSoundToggleFeedback: 2 * (100 + 50) + 1000
ArtDelay == 3000                  \* pixelatedArtExplosion: 30 * 50 + 1000, then delay(500)
max_menu_pages == 2
IntMax == 2147483647

endpoints == <<"/post", "/", "/login", "/auth">>

(* Bounds of the model *)

MaxClock == 62000
MaxNets == 2
MaxToggles == 3
MaxRequests == 1
MaxSubmits == 2
MaxTail == 2
MaxPasses == 6

SSIDs == {"CafeWifi", "Lobby"}
ScanErrors == {-1, -2}
ResponseCodes == {200, 404, -1}
NeverJoined == -1
JoinLatencies == {0, NeverJoined}
\* joins that succeed between two polls of the wait loop, at the bound, and
\* one millisecond after it
EdgeLatencies == {250, 5000, 5001, NeverJoined}

----------------------------------------------------------------------------
(* unsigned long arithmetic (32 bits on the ESP32).  The model's instants  *)
(* stay below 2^31, TLC's integers end at IntMax = 2^31 - 1.  A sum of two  *)
(* instants of the model does not wrap.  A difference a - b with a < b      *)
(* wraps to 2^32 - (b - a), which is above IntMax and above every constant  *)
(* the program compares a difference with: IntMax stands for it.            *)

Add32(a, b) == a + b
Sub32(a, b) == IF a >= b THEN a - b ELSE IntMax

----------------------------------------------------------------------------
(* Strings *)

Chars(c) ==
    IF c = "<" THEN <<"&", "l", "t", ";">>
    ELSE IF c = ">" THEN <<"&", "g", "t", ";">>
    ELSE <<c>>

RECURSIVE Replace(_)
\* message.replace("<", "&lt;"); message.replace(">", "&gt;")
Replace(s) == IF s = <<>> THEN <<>> ELSE Chars(Head(s)) \o Replace(Tail(s))

\* String::substring(from, to), 0-based, `to` exclusive and clipped to the length
Substring(s, from, to) ==
    IF from >= Len(s) THEN <<>>
    ELSE SubSeq(s, from + 1, IF to > Len(s) THEN Len(s) ELSE to)

\* Mutant: the /message handler without `message.substring(0, 100)`
StoredText_NoLimit(msg) == Replace(msg)

\* Mutant: the /message handler without the two calls of replace()
StoredText_NoEscape(msg) == Substring(msg, 0, MessageLimit)

\* Mutant: the /message handler cutting the text before it escapes it
StoredText_CutFirst(msg) == Replace(Substring(msg, 0, MessageLimit))

\* the /message handler's text processing
StoredText(msg) == Substring(Replace(msg), 0, MessageLimit)

----------------------------------------------------------------------------
(* Inputs *)

Network == [ssid : SSIDs, open : BOOLEAN]
NetLists == UNION {[1..k -> Network] : k \in 0..MaxNets}

\* WiFi.scanNetworks(): the number of networks found, or a negative error code
ScanResults ==
    {[n |-> e, nets |-> <<>>] : e \in ScanErrors}
        \cup {[n |-> Len(s), nets |-> s] : s \in NetLists}

QuietResults == {r \in ScanResults : \A k \in 1..Len(r.nets) : ~r.nets[k].open}

\* the scan results of a place where every network in range has one name
SameNameResults ==
    {r \in ScanResults : \A k \in 1..Len(r.nets) : r.nets[k].ssid = "CafeWifi"}

Messages == {<<"<", "b", ">">>}

\* two texts a client posts one after the other
SlotMessages == {<<"<", "b", ">">>, <<"h", "i">>}

\* the requests a client sends, its POST of the form carrying one of msgs
RequestsWith(msgs) ==
    {[method |-> "GET", path |-> "/", msg |-> <<>>],
     [method |-> "GET", path |-> "/message", msg |-> <<>>],
     [method |-> "GET", path |-> "/unknown", msg |-> <<>>]}
        \cup {[method |-> "POST", path |-> p, msg |-> m] :
                 p \in {"/message", "/unknown"}, m \in msgs}

Requests == RequestsWith(Messages)

\* k characters that replace() leaves alone
Pad(k) == [j \in 1..k |-> "a"]

\* the ends of a text: up to MaxTail characters, '<' and '>' among them
Tails == UNION {[1..l -> {"a", "<", ">"}] : l \in 0..MaxTail}

\* texts that end around the 100th character, and the empty and short ones
PadLengths == {0} \cup ((MessageLimit - 5)..(MessageLimit + 1))

ExampleText == <<"<", "b", ">", "h", "i", "<", "/", "b", ">">>

HelloThere == <<"H", "e", "l", "l", "o", " ", "t", "h", "e", "r", "e">>

\* texts without '<' and '>', of at most 100 characters: one line of the
\* overlay, more than one line, more than two lines, the longest kept whole
PeekTexts == {HelloThere, Pad(31), Pad(61), Pad(MessageLimit)}

FormTexts == {Pad(k) \o t : k \in PadLengths, t \in Tails} \cup {ExampleText}

\* before the WebServer has handled any request
NoRequest == [method |-> "", path |-> "", msg |-> <<>>]

NoOverlay == [line1 |-> <<>>, line2 |-> <<>>, visible |-> FALSE]

----------------------------------------------------------------------------
\* The statics of hal_handler and the feature flags as the program starts
Buttons0 ==
    /\ time_bypass_complete = FALSE
    /\ time_bypass_start = 0
    /\ btn_a_was_pressed = FALSE
    /\ btn_b_was_pressed = FALSE
    /\ btn_pwr_was_pressed = FALSE
    /\ btn_b_hold_start = 0
    /\ effects_enabled = TRUE
    /\ sound_enabled = TRUE
    /\ waiting_for_second_tap = FALSE
    /\ last_btn_b_press = 0
    /\ current_menu_page = 0
    /\ passes = 0
    /\ pwrPressedAt = -1
    /\ pwrDoubleTapped = FALSE

Init ==
    /\ clock = 0
    /\ tamaportal_active = FALSE
    /\ last_portal_scan = 0
    /\ received_message = <<>>
    /\ message_display_time = 0
    /\ hotspotCreated = FALSE
    /\ tamaPortalServer = 0
    /\ tamaDnsServer = 0
    /\ wifiMode = "OFF"
    /\ apStarts = 0
    /\ pc = "loop"
    /\ caller = "none"
    /\ now = 0
    /\ n = 0
    /\ nets = <<>>
    /\ i = 0
    /\ foundOpenNetwork = FALSE
    /\ startTime = 0
    /\ joinLatency = 0
    /\ endpoint = 0
    /\ responseCode = 0
    /\ cycleLog = <<>>
    /\ serverReply = 0
    /\ location = ""
    /\ shown = NoOverlay
    /\ lastRequest = NoRequest
    /\ formText = <<>>
    /\ cleanIcon = FALSE
    /\ prev_clean_selected = FALSE
    /\ lastCall = "boot"
    /\ ranCycle = FALSE
    /\ toggleRun = 0
    /\ lastCycle = "none"
    /\ toggles = 0
    /\ requests = 0
    /\ cycleStartedAt = -1
    /\ toggleRequested = FALSE
    /\ Buttons0

\* The state in which initTamaPortal() leaves the program when its scan finds
\* no network: active, the hotspot up, the servers allocated; the client's
\* form holds one of texts.
Hosting(texts) ==
    /\ clock = ActivationDelay
    /\ tamaportal_active = TRUE
    /\ last_portal_scan = 0
    /\ received_message = <<>>
    /\ message_display_time = 0
    /\ hotspotCreated = TRUE
    /\ tamaPortalServer = 1
    /\ tamaDnsServer = 1
    /\ wifiMode = "AP"
    /\ apStarts = 1
    /\ pc = "loop"
    /\ caller = "none"
    /\ now = 0
    /\ n = 0
    /\ nets = <<>>
    /\ i = 0
    /\ foundOpenNetwork = FALSE
    /\ startTime = 0
    /\ joinLatency = 0
    /\ endpoint = 0
    /\ responseCode = 0
    /\ cycleLog = <<>>
    /\ serverReply = 0
    /\ location = ""
    /\ shown = NoOverlay
    /\ lastRequest = NoRequest
    /\ formText \in texts
    /\ cleanIcon = FALSE
    /\ prev_clean_selected = FALSE
    /\ lastCall = "toggle"
    /\ ranCycle = TRUE
    /\ toggleRun = 1
    /\ lastCycle = "fallback"
    /\ toggles = 1
    /\ requests = 0
    /\ cycleStartedAt = ActivationDelay
    /\ toggleRequested = FALSE
    /\ Buttons0

InitInbox == Hosting(FormTexts)

InitPeek == Hosting(PeekTexts)

InitSlot == Hosting({<<>>})

----------------------------------------------------------------------------
(* Mutant: createTamaPortalHotspot without its `if (hotspotCreated) return` *)
createTamaPortalHotspot_NoGuard(log) ==
    /\ wifiMode' = "AP"
    /\ apStarts' = apStarts + 1
    /\ tamaDnsServer' = tamaDnsServer + 1
    /\ tamaPortalServer' = tamaPortalServer + 1
    /\ hotspotCreated' = TRUE
    /\ cycleLog' = Append(log, <<"create">>)

(* Mutant: createTamaPortalHotspot without `tamaDnsServer = new DNSServer()` *)
createTamaPortalHotspot_NoDns(log) ==
    IF hotspotCreated
    THEN /\ cycleLog' = log
         /\ UNCHANGED hostVars
    ELSE /\ wifiMode' = "AP"
         /\ apStarts' = apStarts + 1
         /\ tamaPortalServer' = tamaPortalServer + 1
         /\ hotspotCreated' = TRUE
         /\ cycleLog' = Append(log, <<"create">>)
         /\ UNCHANGED tamaDnsServer

(* createTamaPortalHotspot, called from a step of the scan cycle whose log  *)
(* so far is `log`.                                                         *)
createTamaPortalHotspot(log) ==
    IF hotspotCreated
    THEN /\ cycleLog' = log
         /\ UNCHANGED hostVars
    ELSE /\ wifiMode' = "AP"
         /\ apStarts' = apStarts + 1
         /\ tamaDnsServer' = tamaDnsServer + 1
         /\ tamaPortalServer' = tamaPortalServer + 1
         /\ hotspotCreated' = TRUE
         /\ cycleLog' = Append(log, <<"create">>)

(* Mutant: initTamaPortal whose activation does not call                    *)
(* scanAndAttackPortals                                                     *)
initTamaPortal_NoScan ==
    /\ pc = "loop"
    /\ clock <= MaxClock
    /\ toggles < MaxToggles
    /\ toggles' = toggles + 1
    /\ lastCall' = "toggle"
    /\ lastCycle' = "none"
    /\ toggleRequested' = FALSE
    /\ cycleStartedAt' = IF tamaportal_active THEN -1 ELSE Add32(clock, ActivationDelay)
    /\ clock' = Add32(clock, ActivationDelay)
    /\ ranCycle' = FALSE
    /\ IF tamaportal_active
       THEN /\ tamaportal_active' = FALSE
            /\ wifiMode' = "STA"
            /\ toggleRun' = IF toggleRun = 1 THEN 2 ELSE 0
            /\ UNCHANGED last_portal_scan
       ELSE /\ tamaportal_active' = TRUE
            /\ last_portal_scan' = 0
            /\ toggleRun' = 1
            /\ UNCHANGED wifiMode
    /\ UNCHANGED <<pc, caller, cycleLog, hotspotCreated, tamaPortalServer, tamaDnsServer,
                   apStarts, inboxVars, now, scanVars, sendVars, obsVars, clientVars,
                   iconVars, requests, buttonVars>>

(* Mutant: initTamaPortal whose deactivation does not clear                 *)
(* tamaportal_active                                                        *)
initTamaPortal_StaysActive ==
    /\ pc = "loop"
    /\ clock <= MaxClock
    /\ toggles < MaxToggles
    /\ toggles' = toggles + 1
    /\ lastCall' = "toggle"
    /\ lastCycle' = "none"
    /\ toggleRequested' = FALSE
    /\ cycleStartedAt' = IF tamaportal_active THEN -1 ELSE Add32(clock, ActivationDelay)
    /\ clock' = Add32(clock, ActivationDelay)
    /\ IF tamaportal_active
       THEN /\ wifiMode' = "STA"
            /\ ranCycle' = FALSE
            /\ toggleRun' = IF toggleRun = 1 THEN 2 ELSE 0
            /\ UNCHANGED <<tamaportal_active, last_portal_scan, pc, caller, cycleLog,
                           hotspotCreated, tamaPortalServer, tamaDnsServer, apStarts>>
       ELSE /\ tamaportal_active' = TRUE
            /\ last_portal_scan' = 0
            /\ ranCycle' = TRUE
            /\ toggleRun' = 1
            /\ pc' = "scan"
            /\ caller' = "init"
            /\ cycleLog' = <<>>
            /\ UNCHANGED hostVars
    /\ UNCHANGED <<inboxVars, now, scanVars, sendVars, obsVars, clientVars, iconVars,
                   requests, buttonVars>>

(* initTamaPortal: the activation toggle *)
initTamaPortal ==
    /\ pc = "loop"
    /\ clock <= MaxClock
    /\ toggles < MaxToggles
    /\ toggles' = toggles + 1
    /\ lastCall' = "toggle"
    /\ lastCycle' = "none"
    /\ toggleRequested' = FALSE
    /\ cycleStartedAt' = IF tamaportal_active THEN -1 ELSE Add32(clock, ActivationDelay)
    /\ clock' = Add32(clock, ActivationDelay)
    /\ IF tamaportal_active
       THEN /\ tamaportal_active' = FALSE
            /\ wifiMode' = "STA"
            /\ ranCycle' = FALSE
            /\ toggleRun' = IF toggleRun = 1 THEN 2 ELSE 0
            /\ UNCHANGED <<last_portal_scan, pc, caller, cycleLog, hotspotCreated,
                           tamaPortalServer, tamaDnsServer, apStarts>>
       ELSE /\ tamaportal_active' = TRUE
            /\ last_portal_scan' = 0
            /\ ranCycle' = TRUE
            /\ toggleRun' = 1
            /\ pc' = "scan"
            /\ caller' = "init"
            /\ cycleLog' = <<>>
            /\ UNCHANGED hostVars
    /\ UNCHANGED <<inboxVars, now, scanVars, sendVars, obsVars, clientVars, iconVars,
                   requests, buttonVars>>

(* Mutant: handleTamaPortal without `if (!tamaportal_active) return` *)
handleTamaPortal_NoActiveCheck ==
    /\ pc = "loop"
    /\ clock <= MaxClock
    /\ lastCall' = "tick"
    /\ UNCHANGED <<lastCycle, toggleRequested>>
    /\ toggleRun' = 0
    /\ now' = clock
    /\ IF Sub32(clock, last_portal_scan) > PORTAL_SCAN_INTERVAL
       THEN /\ pc' = "scan"
            /\ caller' = "tick"
            /\ cycleLog' = <<>>
            /\ ranCycle' = TRUE
       ELSE /\ ranCycle' = FALSE
            /\ UNCHANGED <<pc, caller, cycleLog>>
    /\ UNCHANGED <<clock, portalVars, inboxVars, hostVars, scanVars, sendVars, obsVars,
                   clientVars, iconVars, countVars, buttonVars>>
    /\ cycleStartedAt' = IF pc' = "scan" THEN clock ELSE cycleStartedAt

(* Mutant: handleTamaPortal comparing with >= instead of > *)
handleTamaPortal_AtInterval ==
    /\ pc = "loop"
    /\ clock <= MaxClock
    /\ lastCall' = "tick"
    /\ UNCHANGED <<lastCycle, toggleRequested>>
    /\ toggleRun' = 0
    /\ IF ~tamaportal_active
       THEN /\ ranCycle' = FALSE
            /\ UNCHANGED <<now, pc, caller, cycleLog>>
       ELSE /\ now' = clock
            /\ IF Sub32(clock, last_portal_scan) >= PORTAL_SCAN_INTERVAL
               THEN /\ pc' = "scan"
                    /\ caller' = "tick"
                    /\ cycleLog' = <<>>
                    /\ ranCycle' = TRUE
               ELSE /\ ranCycle' = FALSE
                    /\ UNCHANGED <<pc, caller, cycleLog>>
    /\ UNCHANGED <<clock, portalVars, inboxVars, hostVars, scanVars, sendVars, obsVars,
                   clientVars, iconVars, countVars, buttonVars>>
    /\ cycleStartedAt' = IF pc' = "scan" THEN clock ELSE cycleStartedAt

(* handleTamaPortal: the periodic tick *)
handleTamaPortal ==
    /\ pc = "loop"
    /\ clock <= MaxClock
    /\ lastCall' = "tick"
    /\ UNCHANGED <<lastCycle, toggleRequested>>
    /\ toggleRun' = 0
    /\ IF ~tamaportal_active
       THEN /\ ranCycle' = FALSE
            /\ UNCHANGED <<now, pc, caller, cycleLog>>
       ELSE /\ now' = clock
            /\ IF Sub32(clock, last_portal_scan) > PORTAL_SCAN_INTERVAL
               THEN /\ pc' = "scan"
                    /\ caller' = "tick"
                    /\ cycleLog' = <<>>
                    /\ ranCycle' = TRUE
               ELSE /\ ranCycle' = FALSE
                    /\ UNCHANGED <<pc, caller, cycleLog>>
    /\ UNCHANGED <<clock, portalVars, inboxVars, hostVars, scanVars, sendVars, obsVars,
                   clientVars, iconVars, countVars, buttonVars>>
    /\ cycleStartedAt' = IF pc' = "scan" THEN clock ELSE cycleStartedAt

(* Mutant: scanAndAttackPortals whose n == 0 case returns without calling   *)
(* createTamaPortalHotspot                                                  *)
ScanNetworksFrom_NoFallback(results) ==
    /\ pc = "scan"
    /\ \E r \in results :
         /\ n' = r.n
         /\ nets' = r.nets
         /\ IF r.n = 0
            THEN /\ pc' = "ret"
                 /\ UNCHANGED <<i, foundOpenNetwork>>
            ELSE /\ foundOpenNetwork' = FALSE
                 /\ i' = 1
                 /\ pc' = "cand"
    /\ UNCHANGED <<clock, cycleLog, hostVars, portalVars, inboxVars, callVars, sendVars,
                   obsVars, clientVars, iconVars, histVars, countVars,
                   buttonVars>>

(* scanAndAttackPortals, first part: WiFi.scanNetworks(), which returns one *)
(* of `results`, and the n == 0 case                                        *)
ScanNetworksFrom(results) ==
    /\ pc = "scan"
    /\ \E r \in results :
         /\ n' = r.n
         /\ nets' = r.nets
         /\ IF r.n = 0
            THEN /\ createTamaPortalHotspot(Append(cycleLog, <<"fallback">>))
                 /\ pc' = "ret"
                 /\ UNCHANGED <<i, foundOpenNetwork>>
            ELSE /\ foundOpenNetwork' = FALSE
                 /\ i' = 1
                 /\ pc' = "cand"
                 /\ UNCHANGED <<cycleLog, hostVars>>
    /\ UNCHANGED <<clock, portalVars, inboxVars, callVars, sendVars, obsVars, clientVars,
                   iconVars, histVars,
                   countVars,
                   buttonVars>>

ScanNetworks == ScanNetworksFrom(ScanResults)

\* the scan of a place without an open network
ScanQuiet == ScanNetworksFrom(QuietResults)

\* the scan of a place where every network in range has one name
ScanSameName == ScanNetworksFrom(SameNameResults)

(* scanAndAttackPortals, one evaluation of the for loop's condition: either *)
(* one iteration up to the call of sendFriendlyMessage, or the fallback     *)
(* decision after the loop.                                                 *)
NextCandidateFrom(latencies) ==
    /\ pc = "cand"
    /\ IF i <= n
       THEN /\ IF nets[i].open
               THEN /\ cycleLog' = Append(cycleLog, <<"inject", i, nets[i].ssid>>)
                    /\ startTime' = clock
                    /\ \E l \in latencies : joinLatency' = l
                    /\ pc' = "wait"
                    /\ UNCHANGED i
               ELSE /\ i' = i + 1
                    /\ UNCHANGED <<cycleLog, startTime, joinLatency, pc>>
            /\ UNCHANGED hostVars
       ELSE /\ IF ~foundOpenNetwork
               THEN createTamaPortalHotspot(Append(cycleLog, <<"fallback">>))
               ELSE UNCHANGED <<cycleLog, hostVars>>
            /\ pc' = "ret"
            /\ UNCHANGED <<i, startTime, joinLatency>>
    /\ UNCHANGED <<clock, portalVars, inboxVars, callVars, n, nets, foundOpenNetwork,
                   endpoint, responseCode, obsVars, clientVars, iconVars, histVars, countVars,
                   buttonVars>>

(* Mutant: scanAndAttackPortals leaving its loop after the first open       *)
(* network                                                                  *)
NextCandidate_FirstOnly ==
    /\ pc = "cand"
    /\ IF i <= n /\ ~foundOpenNetwork
       THEN /\ IF nets[i].open
               THEN /\ cycleLog' = Append(cycleLog, <<"inject", i, nets[i].ssid>>)
                    /\ startTime' = clock
                    /\ \E l \in JoinLatencies : joinLatency' = l
                    /\ pc' = "wait"
                    /\ UNCHANGED i
               ELSE /\ i' = i + 1
                    /\ UNCHANGED <<cycleLog, startTime, joinLatency, pc>>
            /\ UNCHANGED hostVars
       ELSE /\ IF ~foundOpenNetwork
               THEN createTamaPortalHotspot(Append(cycleLog, <<"fallback">>))
               ELSE UNCHANGED <<cycleLog, hostVars>>
            /\ pc' = "ret"
            /\ UNCHANGED <<i, startTime, joinLatency>>
    /\ UNCHANGED <<clock, portalVars, inboxVars, callVars, n, nets, foundOpenNetwork,
                   endpoint, responseCode, obsVars, clientVars, iconVars, histVars, countVars,
                   buttonVars>>

(* the loop of scanAndAttackPortals where a join succeeds at once or never *)
NextCandidate == NextCandidateFrom(JoinLatencies)

(* Mutant: the loop of scanAndAttackPortals without                         *)
(* `foundOpenNetwork = true`                                                *)
ReturnToLoop_NoFlag ==
    /\ UNCHANGED foundOpenNetwork
    /\ clock' = Add32(clock, CandidateDelay)
    /\ i' = i + 1
    /\ pc' = "cand"

(* sendFriendlyMessage returns to the loop of scanAndAttackPortals *)
ReturnToLoop ==
    /\ foundOpenNetwork' = TRUE
    /\ clock' = Add32(clock, CandidateDelay)
    /\ i' = i + 1
    /\ pc' = "cand"

(* WiFi.status() == WL_CONNECTED at instant t, for the join begun at       *)
(* startTime                                                                *)
ConnectedAt(t) ==
    /\ joinLatency # NeverJoined
    /\ Sub32(t, startTime) >= joinLatency

Connected == ConnectedAt(clock)

RECURSIVE WaitLoop(_)
\* the instant at which the connect-wait loop entered at instant t is left:
\* while (WiFi.status() != WL_CONNECTED && millis() - startTime < 5000) delay(100)
WaitLoop(t) ==
    IF ~ConnectedAt(t) /\ Sub32(t, startTime) < ConnectTimeout
    THEN WaitLoop(Add32(t, ConnectPoll))
    ELSE t

(* sendFriendlyMessage: the connect-wait loop *)
WaitConnected ==
    /\ pc = "wait"
    /\ clock' = WaitLoop(clock)
    /\ pc' = "check"
    /\ cycleLog' = Append(cycleLog,
                          <<IF ConnectedAt(WaitLoop(clock)) THEN "joined" ELSE "timeout", i>>)
    /\ UNCHANGED <<portalVars, inboxVars, hostVars, callVars, scanVars, sendVars,
                   obsVars, clientVars, iconVars,
                   histVars, countVars,
                   buttonVars>>

(* Mutant: the connect-wait loop under a millisecond clock that stands      *)
(* still                                                                    *)
PollConnected_NoDelay ==
    /\ pc = "wait"
    /\ IF ~Connected /\ Sub32(clock, startTime) < ConnectTimeout
       THEN UNCHANGED <<clock, pc, cycleLog>>
       ELSE /\ pc' = "check"
            /\ cycleLog' = Append(cycleLog, <<IF Connected THEN "joined" ELSE "timeout", i>>)
            /\ UNCHANGED clock
    /\ UNCHANGED <<portalVars, inboxVars, hostVars, callVars, scanVars, sendVars,
                   obsVars, clientVars, iconVars,
                   histVars, countVars,
                   buttonVars>>

(* sendFriendlyMessage: one evaluation of the condition of the connect-wait *)
(* loop, with the delay(100) of its body when the condition holds           *)
PollConnected ==
    /\ pc = "wait"
    /\ IF ~Connected /\ Sub32(clock, startTime) < ConnectTimeout
       THEN /\ clock' = Add32(clock, ConnectPoll)
            /\ UNCHANGED <<pc, cycleLog>>
       ELSE /\ pc' = "check"
            /\ cycleLog' = Append(cycleLog, <<IF Connected THEN "joined" ELSE "timeout", i>>)
            /\ UNCHANGED clock
    /\ UNCHANGED <<portalVars, inboxVars, hostVars, callVars, scanVars, sendVars,
                   obsVars, clientVars, iconVars,
                   histVars, countVars,
                   buttonVars>>

(* Mutant: sendFriendlyMessage without the test of WiFi.status() after the  *)
(* wait loop                                                                *)
CheckConnected_NoTest ==
    /\ pc = "check"
    /\ endpoint' = 1
    /\ pc' = "post"
    /\ UNCHANGED <<clock, i, foundOpenNetwork>>
    /\ UNCHANGED <<cycleLog, portalVars, inboxVars, hostVars, callVars, n, nets,
                   startTime, joinLatency, responseCode, obsVars, clientVars, iconVars,
                   histVars, countVars,
                   buttonVars>>

(* sendFriendlyMessage: if (WiFi.status() == WL_CONNECTED) *)
CheckConnected ==
    /\ pc = "check"
    /\ IF Connected
       THEN /\ endpoint' = 1
            /\ pc' = "post"
            /\ UNCHANGED <<clock, i, foundOpenNetwork>>
       ELSE /\ ReturnToLoop
            /\ UNCHANGED endpoint
    /\ UNCHANGED <<cycleLog, portalVars, inboxVars, hostVars, callVars, n, nets,
                   startTime, joinLatency, responseCode, obsVars, clientVars, iconVars,
                   histVars, countVars,
                   buttonVars>>

(* sendFriendlyMessage: one iteration of the loop over endpoints[], or the  *)
(* WiFi.disconnect() after it                                               *)
PostEndpoint ==
    /\ pc = "post"
    /\ IF endpoint <= Len(endpoints)
       THEN /\ \E code \in ResponseCodes : responseCode' = code
            /\ cycleLog' = Append(cycleLog, <<"post", i, endpoints[endpoint]>>)
            /\ clock' = Add32(clock, EndpointDelay)
            /\ endpoint' = endpoint + 1
            /\ UNCHANGED <<pc, i, foundOpenNetwork>>
       ELSE /\ cycleLog' = Append(cycleLog, <<"disconnect", i>>)
            /\ endpoint' = 0
            /\ responseCode' = 0
            /\ ReturnToLoop
    /\ UNCHANGED <<portalVars, inboxVars, hostVars, callVars, n, nets, startTime,
                   joinLatency, obsVars, clientVars, iconVars, histVars, countVars,
                   buttonVars>>

(* scanAndAttackPortals releases the scan result (WiFi.scanDelete(), after  *)
(* the loop) and returns to its caller; handleTamaPortal then stores `now`  *)
ReturnToCaller ==
    /\ pc = "ret"
    /\ last_portal_scan' = IF caller = "tick" THEN now ELSE last_portal_scan
    /\ pc' = "loop"
    /\ caller' = "none"
    /\ n' = 0
    /\ nets' = <<>>
    /\ i' = 0
    /\ foundOpenNetwork' = FALSE
    /\ startTime' = 0
    /\ joinLatency' = 0
    /\ cycleLog' = <<>>
    /\ lastCycle' = IF foundOpenNetwork THEN "injected" ELSE "fallback"
    /\ UNCHANGED <<clock, tamaportal_active, inboxVars, hostVars, now, endpoint,
                   responseCode, obsVars, clientVars, iconVars, lastCall, ranCycle,
                   toggleRun, cycleStartedAt, toggleRequested, countVars,
                   buttonVars>>

(* Mutant: the /message handler registered for every method                *)
HandleClientFrom_AnyMethod(reqs, limit) ==
    /\ pc = "loop"
    /\ tamaportal_active /\ tamaPortalServer # 0
    /\ wifiMode = "AP"
    /\ requests < limit
    /\ requests' = requests + 1
    /\ \E req \in reqs :
         /\ lastRequest' = req
         /\ IF req.path = "/"
            THEN /\ serverReply' = 200
                 /\ location' = ""
                 /\ UNCHANGED inboxVars
            ELSE IF req.path = "/message"
            THEN /\ received_message' = StoredText(req.msg)
                 /\ message_display_time' = clock
                 /\ serverReply' = 200
                 /\ location' = ""
            ELSE /\ location' = "/"
                 /\ serverReply' = 302
                 /\ UNCHANGED inboxVars
    /\ UNCHANGED <<clock, pc, cycleLog, portalVars, hostVars, callVars, scanVars,
                   sendVars, shown, formText, iconVars, histVars, toggles,
                   buttonVars>>

(* Mutant: a /message handler that keeps the message it has stored         *)
HandleClientFrom_KeepFirst(reqs, limit) ==
    /\ pc = "loop"
    /\ tamaportal_active /\ tamaPortalServer # 0
    /\ wifiMode = "AP"
    /\ requests < limit
    /\ requests' = requests + 1
    /\ \E req \in reqs :
         /\ lastRequest' = req
         /\ IF req.path = "/"
            THEN /\ serverReply' = 200
                 /\ location' = ""
                 /\ UNCHANGED inboxVars
            ELSE IF req.path = "/message" /\ req.method = "POST"
            THEN /\ IF Len(received_message) > 0
                    THEN UNCHANGED inboxVars
                    ELSE /\ received_message' = StoredText(req.msg)
                         /\ message_display_time' = clock
                 /\ serverReply' = 200
                 /\ location' = ""
            ELSE /\ location' = "/"
                 /\ serverReply' = 302
                 /\ UNCHANGED inboxVars
    /\ UNCHANGED <<clock, pc, cycleLog, portalVars, hostVars, callVars, scanVars,
                   sendVars, shown, formText, iconVars, histVars, toggles,
                   buttonVars>>

(* hal_handler's request pump and the WebServer's handlers, for a request   *)
(* out of reqs, the limit-th request at most                                *)
HandleClientFrom(reqs, limit) ==
    /\ pc = "loop"
    /\ tamaportal_active /\ tamaPortalServer # 0
    /\ wifiMode = "AP"        \* a client reaches the server through the access point
    /\ requests < limit
    /\ requests' = requests + 1
    /\ \E req \in reqs :
         /\ lastRequest' = req
         /\ IF req.path = "/"
            THEN /\ serverReply' = 200
                 /\ location' = ""
                 /\ UNCHANGED inboxVars
            ELSE IF req.path = "/message" /\ req.method = "POST"
            THEN /\ received_message' = StoredText(req.msg)
                 /\ message_display_time' = clock
                 /\ serverReply' = 200
                 /\ location' = ""
            ELSE /\ location' = "/"
                 /\ serverReply' = 302
                 /\ UNCHANGED inboxVars
    /\ UNCHANGED <<clock, pc, cycleLog, portalVars, hostVars, callVars, scanVars,
                   sendVars, shown, formText, iconVars, histVars, toggles,
                   buttonVars>>

HandleClient == HandleClientFrom(Requests, MaxRequests)

\* the client submits the form with the text typed into it
SubmitForm ==
    HandleClientFrom({[method |-> "POST", path |-> "/message", msg |-> formText]},
                     MaxSubmits)

\* a client that posts one text and later another
HandleSlotClient == HandleClientFrom(RequestsWith(SlotMessages), MaxSubmits)

(* Mutant: hal_handler following the Clean icon without clearing the       *)
(* message                                                                  *)
ClearOnClean_NoClear ==
    /\ pc = "loop"
    /\ prev_clean_selected' = cleanIcon
    /\ UNCHANGED <<clock, pc, cycleLog, portalVars, inboxVars, hostVars,
                   callVars, scanVars, sendVars, obsVars, clientVars, cleanIcon,
                   histVars, countVars,
                   buttonVars>>

(* hal_handler: the message is cleared when the Clean icon becomes selected *)
ClearOnClean ==
    /\ pc = "loop"
    /\ IF cleanIcon /\ ~prev_clean_selected /\ Len(received_message) > 0
       THEN received_message' = <<>>
       ELSE UNCHANGED received_message
    /\ prev_clean_selected' = cleanIcon
    /\ UNCHANGED <<clock, pc, cycleLog, portalVars, message_display_time, hostVars,
                   callVars, scanVars, sendVars, obsVars, clientVars, cleanIcon,
                   histVars, countVars,
                   buttonVars>>

(* hal_set_lcd_icon(4, val): the emulator selects or deselects the Clean    *)
(* icon between two passes of hal_handler                                   *)
hal_set_lcd_icon ==
    /\ pc = "loop"
    /\ cleanIcon' = ~cleanIcon
    /\ UNCHANGED <<clock, pc, cycleLog, portalVars, inboxVars, hostVars, callVars,
                   scanVars, sendVars, obsVars, clientVars, prev_clean_selected,
                   histVars, countVars,
                   buttonVars>>

(* Mutant: displayTama that hides an expired message without clearing it    *)
displayTama_NoExpire ==
    /\ pc = "loop"
    /\ IF Len(received_message) > 0
          /\ Sub32(clock, message_display_time) < MESSAGE_DISPLAY_DURATION
       THEN shown' = [line1 |-> Substring(received_message, 0, 30),
                      line2 |-> Substring(received_message, 30, 60),
                      visible |-> TRUE]
       ELSE shown' = NoOverlay
    /\ UNCHANGED <<clock, pc, cycleLog, portalVars, inboxVars, hostVars,
                   callVars, scanVars, sendVars, serverReply, location, clientVars,
                   iconVars, histVars, countVars, buttonVars>>

(* Mutant: displayTama showing the message up to and including the 5000th  *)
(* millisecond                                                              *)
displayTama_Inclusive ==
    /\ pc = "loop"
    /\ IF Len(received_message) > 0
          /\ Sub32(clock, message_display_time) <= MESSAGE_DISPLAY_DURATION
       THEN /\ shown' = [line1 |-> Substring(received_message, 0, 30),
                         line2 |-> Substring(received_message, 30, 60),
                         visible |-> TRUE]
            /\ UNCHANGED received_message
       ELSE /\ shown' = NoOverlay
            /\ received_message' = <<>>
    /\ UNCHANGED <<clock, pc, cycleLog, portalVars, message_display_time, hostVars,
                   callVars, scanVars, sendVars, serverReply, location, clientVars,
                   iconVars, histVars, countVars,
                   buttonVars>>

(* Mutant: displayTama drawing the first line only                          *)
displayTama_OneLine ==
    /\ pc = "loop"
    /\ IF Len(received_message) > 0
          /\ Sub32(clock, message_display_time) < MESSAGE_DISPLAY_DURATION
       THEN /\ shown' = [line1 |-> Substring(received_message, 0, 30),
                         line2 |-> <<>>,
                         visible |-> TRUE]
            /\ UNCHANGED received_message
       ELSE /\ shown' = NoOverlay
            /\ received_message' = <<>>
    /\ UNCHANGED <<clock, pc, cycleLog, portalVars, message_display_time, hostVars,
                   callVars, scanVars, sendVars, serverReply, location, clientVars,
                   iconVars, histVars, countVars,
                   buttonVars>>

(* displayTama: the message overlay *)
displayTama ==
    /\ pc = "loop"
    /\ IF Len(received_message) > 0
          /\ Sub32(clock, message_display_time) < MESSAGE_DISPLAY_DURATION
       THEN /\ shown' = [line1 |-> Substring(received_message, 0, 30),
                         line2 |-> Substring(received_message, 30, 60),
                         visible |-> TRUE]
            /\ UNCHANGED received_message
       ELSE /\ shown' = NoOverlay
            /\ received_message' = <<>>
    /\ UNCHANGED <<clock, pc, cycleLog, portalVars, message_display_time, hostVars,
                   callVars, scanVars, sendVars, serverReply, location, clientVars,
                   iconVars, histVars, countVars,
                   buttonVars>>

(* Time passes between two passes of the main loop, up to one of the       *)
(* instants around which a comparison of the program changes its value.     *)
Instants ==
    {last_portal_scan + PORTAL_SCAN_INTERVAL + d : d \in {-1, 0, 1}}
        \cup {message_display_time + MESSAGE_DISPLAY_DURATION + d : d \in {-1, 0, 1}}

Advance ==
    /\ pc = "loop"
    /\ \E t \in Instants :
         /\ t > clock
         /\ t <= MaxClock
         /\ clock' = t
    /\ UNCHANGED <<pc, cycleLog, portalVars, inboxVars, hostVars, callVars, scanVars,
                   sendVars, obsVars, clientVars, iconVars, histVars, countVars,
                   buttonVars>>

(* The controller and its scan cycles, nobody joining the hotspot *)
Next ==
    \/ initTamaPortal
    \/ handleTamaPortal
    \/ ScanNetworks
    \/ NextCandidate
    \/ WaitConnected
    \/ CheckConnected
    \/ PostEndpoint
    \/ ReturnToCaller
    \/ Advance

Spec == Init /\ [][Next]_vars

(* The controller in a place without an open network, with the clients of   *)
(* the hotspot and the display frames                                       *)
NextHost ==
    \/ initTamaPortal
    \/ handleTamaPortal
    \/ ScanQuiet
    \/ NextCandidate
    \/ ReturnToCaller
    \/ HandleClient
    \/ displayTama
    \/ Advance

SpecHost == Init /\ [][NextHost]_vars

(* The controller and its scan cycles with the connect-wait loop taken poll *)
(* by poll and joins that succeed around the bound; time passes only inside *)
(* the blocking calls                                                       *)
JoinStep ==
    \/ ScanSameName
    \/ NextCandidateFrom(EdgeLatencies)
    \/ PollConnected
    \/ CheckConnected
    \/ PostEndpoint
    \/ ReturnToCaller

NextJoin ==
    \/ initTamaPortal
    \/ handleTamaPortal
    \/ JoinStep

SpecJoin == Init /\ [][NextJoin]_vars

\* scanAndAttackPortals runs on the one thread of the firmware: once called it
\* executes its next statement, and each blocking call (WiFi.scanNetworks,
\* delay, http.POST under setTimeout(2000)) returns
SpecJoinFair == SpecJoin /\ WF_vars(JoinStep)

(* The controller and its scan cycles with the clients of the hotspot, in  *)
(* a place where every network in range has one name                        *)
NextServe ==
    \/ initTamaPortal
    \/ handleTamaPortal
    \/ ScanSameName
    \/ NextCandidate
    \/ WaitConnected
    \/ CheckConnected
    \/ PostEndpoint
    \/ ReturnToCaller
    \/ HandleClient
    \/ Advance

SpecServe == Init /\ [][NextServe]_vars

(* The /message handler applied to the text of the form, and the frames    *)
(* that draw what it stored                                                 *)
NextInbox ==
    \/ SubmitForm
    \/ displayTama

SpecInbox == InitInbox /\ [][NextInbox]_vars

(* The message slot of a hosting device: clients posting, frames drawn, the *)
(* Clean icon selected and deselected, time passing                         *)
NextSlot ==
    \/ HandleSlotClient
    \/ displayTama
    \/ ClearOnClean
    \/ hal_set_lcd_icon
    \/ Advance

SpecSlot == InitSlot /\ [][NextSlot]_vars

(* A hosting device whose client posts a text without '<' and '>', the      *)
(* frames drawn and time passing                                            *)
NextPeek ==
    \/ SubmitForm
    \/ displayTama
    \/ Advance

SpecPeek == InitPeek /\ [][NextPeek]_vars

(* The time between two passes of hal_handler: a short pass (within the     *)
(* double-tap window), one past the hold threshold, one as long as the      *)
(* time-setup bypass                                                        *)
PassGaps == {10, 2001, 3500}

(* One pass of hal_handler up to the update of btn_*_was_pressed, entered   *)
(* at millis() = t0 with M5.update() reading the buttons as a, b, p.  The   *)
(* hw_set_button calls write the emulator's inputs, which are not part of   *)
(* the model.  The double tap of PWR is commented out in the source.        *)
HalPass(t0, a, b, p) ==
    /\ passes' = passes + 1
    /\ IF ~time_bypass_complete
       THEN LET start == IF time_bypass_start = 0 THEN t0 ELSE time_bypass_start
            IN  /\ time_bypass_start' = start
                /\ time_bypass_complete' = (Sub32(t0, start) >= BypassDuration)
                /\ clock' = t0
                /\ UNCHANGED <<btn_a_was_pressed, btn_b_was_pressed, btn_pwr_was_pressed,
                               btn_b_hold_start, effects_enabled, sound_enabled,
                               waiting_for_second_tap, last_btn_b_press,
                               current_menu_page, pwrPressedAt, pwrDoubleTapped>>
       ELSE LET scroll == a /\ p /\ ~btn_a_was_pressed
                t1     == IF scroll THEN Add32(t0, MenuDelay) ELSE t0
                edge   == b /\ ~btn_b_was_pressed
                hold1  == IF edge THEN t1 ELSE btn_b_hold_start
                held   == b /\ Sub32(t1, hold1) > HoldThreshold
                hold2  == IF held THEN Add32(t1, HoldRearm) ELSE hold1
                second == /\ edge
                          /\ waiting_for_second_tap
                          /\ Sub32(t1, last_btn_b_press) < DoubleTapWindow
                t2     == IF second THEN Add32(t1, FeedbackDelay) ELSE t1
                first  == edge /\ ~second
                last1  == IF first THEN t1 ELSE last_btn_b_press
                wait1  == IF edge THEN first ELSE waiting_for_second_tap
                tap    == p /\ ~btn_pwr_was_pressed /\ ~a
                double == /\ tap
                          /\ pwrPressedAt # -1
                          /\ Sub32(t2, pwrPressedAt) < DoubleTapWindow
                tapAt  == IF tap THEN (IF double THEN -1 ELSE t2) ELSE pwrPressedAt
                art    == /\ a /\ b /\ p
                          /\ ~btn_a_was_pressed
                          /\ ~btn_b_was_pressed
                          /\ ~btn_pwr_was_pressed
            IN  /\ current_menu_page' =
                       IF scroll THEN (current_menu_page + 1) % max_menu_pages
                                 ELSE current_menu_page
                /\ effects_enabled' = IF held THEN ~effects_enabled ELSE effects_enabled
                /\ sound_enabled' = IF second THEN ~sound_enabled ELSE sound_enabled
                /\ btn_b_hold_start' = IF second THEN 0 ELSE hold2
                /\ last_btn_b_press' = last1
                /\ waiting_for_second_tap' =
                       (wait1 /\ ~(Sub32(t2, last1) > DoubleTapWindow))
                /\ clock' = IF art THEN Add32(t2, ArtDelay) ELSE t2
                /\ btn_a_was_pressed' = a
                /\ btn_b_was_pressed' = b
                /\ btn_pwr_was_pressed' = p
                /\ pwrDoubleTapped' = (pwrDoubleTapped \/ double)
                /\ pwrPressedAt' = IF tapAt # -1 /\ Sub32(t2, tapAt) > DoubleTapWindow
                                   THEN -1
                                   ELSE tapAt
                /\ UNCHANGED <<time_bypass_complete, time_bypass_start>>

(* Mutant: hal_handler with the double tap of PWR enabled, toggling         *)
(* tamaportal_active                                                        *)
hal_handler_PwrToggle ==
    /\ pc = "loop"
    /\ passes < MaxPasses
    /\ \E gap \in PassGaps, a, b, p \in BOOLEAN :
         /\ HalPass(Add32(clock, gap), a, b, p)
         /\ tamaportal_active' =
                IF pwrDoubleTapped' /\ ~pwrDoubleTapped
                THEN ~tamaportal_active
                ELSE tamaportal_active
    /\ UNCHANGED <<pc, cycleLog, last_portal_scan, inboxVars, hostVars, callVars,
                   scanVars, sendVars, obsVars, clientVars, iconVars, histVars,
                   countVars>>

(* hal_handler: the buttons.  Its calls of handleTamaPortal, of the request *)
(* pump and of the Clean check are the actions handleTamaPortal,            *)
(* PumpRequests and ClearOnClean.                                           *)
hal_handler ==
    /\ pc = "loop"
    /\ passes < MaxPasses
    /\ \E gap \in PassGaps, a, b, p \in BOOLEAN :
         HalPass(Add32(clock, gap), a, b, p)
    /\ UNCHANGED <<pc, cycleLog, portalVars, inboxVars, hostVars, callVars,
                   scanVars, sendVars, obsVars, clientVars, iconVars, histVars,
                   countVars>>

(* hal_handler: the request pump, which serves a request only while the     *)
(* device is active and the server allocated                                *)
PumpRequests ==
    IF tamaportal_active /\ tamaPortalServer # 0
    THEN HandleClient
    ELSE UNCHANGED vars

(* The user asks for the activation toggle (the double tap of PWR): the     *)
(* buttons can be pressed at any moment, a scan cycle in progress included  *)
PressToggle ==
    /\ ~toggleRequested
    /\ toggleRequested' = TRUE
    /\ UNCHANGED <<clock, pc, cycleLog, portalVars, inboxVars, hostVars, callVars,
                   scanVars, sendVars, obsVars, clientVars, iconVars, lastCall,
                   ranCycle, toggleRun, lastCycle, cycleStartedAt, countVars,
                   buttonVars>>

(* hal_handler reads the buttons (M5.update()) and calls initTamaPortal for *)
(* a double tap it has seen: one place, on a pass of the main loop          *)
ServeToggle ==
    /\ toggleRequested
    /\ initTamaPortal

(* The controller and its scan cycles with a user who asks for the toggle   *)
(* at any moment                                                            *)
NextCancel ==
    \/ PressToggle
    \/ ServeToggle
    \/ handleTamaPortal
    \/ ScanSameName
    \/ NextCandidate
    \/ WaitConnected
    \/ CheckConnected
    \/ PostEndpoint
    \/ ReturnToCaller
    \/ Advance

SpecCancel == Init /\ [][NextCancel]_vars

\* The emulator redraws the screen on every pass of its loop (hal_update_screen
\* calls displayTama), and millis() keeps counting
SpecSlotFair == SpecSlot /\ WF_vars(displayTama) /\ WF_vars(Advance)

(* The firmware as built: the passes of hal_handler with the buttons        *)
(* pressed in every way, the controller's tick and the request pump         *)
NextButtons ==
    \/ hal_handler
    \/ handleTamaPortal
    \/ PumpRequests

SpecButtons == Init /\ [][NextButtons]_vars

----------------------------------------------------------------------------
(* Observations *)

\* PortalMode, as the position of the control flow and the state of the host
\* show it: Hosting is the condition under which hal_handler pumps the servers
Mode ==
    IF pc = "scan" \/ (pc = "cand" /\ ~foundOpenNetwork) THEN "Scanning"
    ELSE IF pc \in {"cand", "wait", "check", "post"} THEN "Injecting"
    ELSE IF tamaportal_active /\ tamaPortalServer # 0 THEN "Hosting"
    ELSE "Idle"

HasEvent(kind) == \E k \in 1..Len(cycleLog) : cycleLog[k][1] = kind

HasOpen == \E k \in 1..Len(nets) : nets[k].open

IsInject(e) == e[1] = "inject"

\* the calls of sendFriendlyMessage the cycle has made, in order
Injections == SelectSeq(cycleLog, IsInject)

RECURSIVE OpenEntries(_, _)
\* the open entries among the first k of the scan result s, in result order
OpenEntries(s, k) ==
    IF k = 0 THEN <<>>
    ELSE IF s[k].open
         THEN Append(OpenEntries(s, k - 1), <<"inject", k, s[k].ssid>>)
         ELSE OpenEntries(s, k - 1)

----------------------------------------------------------------------------
(* C1: a scan cycle whose scan returns no network, fails (negative count)  *)
(* or returns only secured networks ends with the host started             *)
(* (hotspotCreated, mode Hosting) and without any injection attempt.       *)
C1_NoOpenNetworkStartsHost ==
    (pc = "ret" /\ ~HasOpen) =>
        /\ hotspotCreated
        /\ Mode = "Hosting"
        /\ Injections = <<>>

C1_Witness == pc = "ret" /\ n \in ScanErrors /\ hotspotCreated /\ HasEvent("create")

(* C2 as claimed: a cycle with an open candidate all of whose joins time    *)
(* out ends with mode Hosting and the host started.                         *)
C2_AllFailedStartsHost ==
    (pc = "ret" /\ HasOpen /\ ~HasEvent("joined")) =>
        (hotspotCreated /\ Mode = "Hosting")

(* C2 amended: a cycle whose scan result has an open candidate makes no     *)
(* start request, whatever became of the injection attempts: it creates no  *)
(* host, and with no host created before it ends in mode Idle.              *)
C2_OpenCandidateNoFallback ==
    (pc = "ret" /\ HasOpen) =>
        /\ ~HasEvent("fallback")
        /\ ~HasEvent("create")
        /\ ~hotspotCreated => Mode = "Idle"

C2_Witness ==
    /\ pc = "ret"
    /\ HasOpen
    /\ HasEvent("timeout")
    /\ ~HasEvent("joined")
    /\ ~hotspotCreated

(* C3: whenever the subsystem is inactive the mode is Idle and no host is   *)
(* running: no access point, no DNS resolver, no HTTP server, and           *)
(* hotspotCreated is false.                                                 *)
C3_InactiveMeansHostStopped ==
    ~tamaportal_active =>
        /\ Mode = "Idle"
        /\ ~hotspotCreated
        /\ wifiMode # "AP"
        /\ tamaPortalServer = 0
        /\ tamaDnsServer = 0

(* C4: a tick taken while inactive changes nothing: no scan cycle starts,   *)
(* and the clock, last_portal_scan, the host and the inbox are as before.   *)
C4_InactiveTickIsNoOp ==
    [][(lastCall # "tick" /\ lastCall' = "tick" /\ ~tamaportal_active) =>
          /\ pc' = "loop"
          /\ ~ranCycle'
          /\ UNCHANGED <<clock, cycleLog, portalVars, inboxVars, hostVars, scanVars,
                         sendVars, obsVars>>]_vars

C4_Witness ==
    /\ lastCall = "tick"
    /\ ~tamaportal_active
    /\ hotspotCreated
    /\ received_message # <<>>

(* C5 as claimed: an active tick runs a cycle iff now - last_portal_scan is *)
(* at least PORTAL_SCAN_INTERVAL.                                           *)
C5_DueAtInterval ==
    /\ (lastCall = "tick" /\ tamaportal_active /\ pc = "loop" /\ ~ranCycle) =>
           Sub32(now, last_portal_scan) < PORTAL_SCAN_INTERVAL
    /\ (pc = "scan" /\ caller = "tick") =>
           Sub32(now, last_portal_scan) >= PORTAL_SCAN_INTERVAL

(* C5 amended: an active tick runs a cycle iff now - last_portal_scan, as   *)
(* an unsigned difference, exceeds PORTAL_SCAN_INTERVAL: not at exactly     *)
(* last_portal_scan + 30000, but at last_portal_scan + 30001.               *)
C5_DueAfterInterval ==
    /\ (lastCall = "tick" /\ tamaportal_active /\ pc = "loop" /\ ~ranCycle) =>
           Sub32(now, last_portal_scan) <= PORTAL_SCAN_INTERVAL
    /\ (pc = "scan" /\ caller = "tick") =>
           Sub32(now, last_portal_scan) > PORTAL_SCAN_INTERVAL

C5_Witness ==
    /\ lastCall = "tick"
    /\ tamaportal_active
    /\ pc = "loop"
    /\ ~ranCycle
    /\ last_portal_scan > 0
    /\ Sub32(now, last_portal_scan) = PORTAL_SCAN_INTERVAL

C7_HostStartsOnlyWhileActive ==
    [][(~hotspotCreated /\ hotspotCreated') =>
          (tamaportal_active /\ tamaportal_active')]_vars

C7_Witness == pc = "ret" /\ HasEvent("create") /\ tamaportal_active /\ caller = "tick"

(* C8: starting the host is idempotent: however many cycles fall back to    *)
(* it, one access point has been brought up and one DNS resolver and one    *)
(* HTTP server created once it is started, and none before.                 *)
C8_StartIsIdempotent ==
    /\ hotspotCreated => (apStarts = 1 /\ tamaDnsServer = 1 /\ tamaPortalServer = 1)
    /\ ~hotspotCreated => (apStarts = 0 /\ tamaDnsServer = 0 /\ tamaPortalServer = 0)

C8_Witness ==
    /\ pc = "ret"
    /\ HasEvent("fallback")
    /\ ~HasEvent("create")
    /\ apStarts = 1

(* C9: two consecutive toggles, the first made while inactive, leave the    *)
(* subsystem inactive, in mode Idle and outside any scan cycle, whatever    *)
(* the scan of the activation returned.                                     *)
C9_ToggleSymmetry ==
    toggleRun = 2 => (~tamaportal_active /\ Mode = "Idle" /\ pc = "loop")

C9_Witness == toggleRun = 2 /\ ~tamaportal_active /\ hotspotCreated /\ toggles = 2

(* C10: in a scan cycle sendFriendlyMessage is called once for every open   *)
(* entry of the scan result, in result order, duplicates of an identifier   *)
(* included, and for no secured entry.                                      *)
C10_OneInjectionPerOpenEntry ==
    /\ pc = "cand" => Injections = OpenEntries(nets, i - 1)
    /\ pc = "ret" => Injections = OpenEntries(nets, Len(nets))

C10_Witness ==
    /\ pc = "ret"
    /\ Len(nets) = 2
    /\ nets[1].open /\ nets[2].open
    /\ nets[1].ssid = nets[2].ssid
    /\ Len(Injections) = 2

\* the injection at position p of the log, once its join has succeeded, has
\* posted to every endpoint in the order of endpoints[] and has then
\* disconnected, nothing in between
PostedAll(p) ==
    /\ p + Len(endpoints) + 1 <= Len(cycleLog)
    /\ \A e \in 1..Len(endpoints) :
         cycleLog[p + e] = <<"post", cycleLog[p][2], endpoints[e]>>
    /\ cycleLog[p + Len(endpoints) + 1] = <<"disconnect", cycleLog[p][2]>>

JoinedAllPosted ==
    \A p \in 1..Len(cycleLog) : cycleLog[p][1] = "joined" => PostedAll(p)

(* C11: in a cycle where the join to an open candidate succeeds, the        *)
(* injector posts once to each of /post, /, /login, /auth in that order,    *)
(* whatever the response codes, disconnects after the fourth, and the cycle *)
(* ends in mode Idle.                                                       *)
C11_JoinedPostsAllThenIdle ==
    (pc = "ret" /\ HasEvent("joined")) =>
        /\ JoinedAllPosted
        /\ Mode = "Idle"

\* the join in progress does not reach the connected state within the bound
JoinLate == joinLatency = NeverJoined \/ joinLatency > ConnectTimeout

\* the candidate whose join timed out at position p of the log got nothing
\* more: the log ends there or goes on with the injection of a later candidate
AbortedAt(p) ==
    p < Len(cycleLog) =>
        /\ cycleLog[p + 1][1] = "inject"
        /\ cycleLog[p + 1][2] > cycleLog[p][2]

\* every open entry among the first k of the scan result has been tried
TriedAllOpen(k) ==
    \A o \in 1..k : nets[o].open => \E p \in 1..Len(cycleLog) :
        cycleLog[p] = <<"inject", o, nets[o].ssid>>

(* C12: a join that does not reach the connected state within 5000 ms ends  *)
(* the wait loop 5000 ms after it began, is followed by no post to any      *)
(* endpoint and no disconnect, and the loop over the scan result goes on:   *)
(* every later open candidate is tried and the cycle ends as usual.         *)
C12_TimeoutSkipsCandidate ==
    /\ (pc \in {"check", "post"} /\ JoinLate) =>
           /\ pc = "check"
           /\ clock = startTime + ConnectTimeout
           /\ cycleLog[Len(cycleLog)] = <<"timeout", i>>
    /\ (pc = "check" /\ ~JoinLate) => cycleLog[Len(cycleLog)] = <<"joined", i>>
    /\ \A p \in 1..Len(cycleLog) : cycleLog[p][1] = "timeout" => AbortedAt(p)
    /\ pc = "cand" => TriedAllOpen(i - 1)
    /\ pc = "ret" => TriedAllOpen(Len(nets))

C12_Witness ==
    /\ pc = "ret"
    /\ Len(cycleLog) > 3
    /\ cycleLog[2] = <<"timeout", 1>>
    /\ cycleLog[3] = <<"inject", 2, "CafeWifi">>
    /\ cycleLog[4] = <<"joined", 2>>
    /\ joinLatency = ConnectTimeout

\* the duration of an activation whose cycle tries two open candidates, the
\* first never joined and the second joined at the bound
TwoCandidateCycle ==
    ActivationDelay + (ConnectTimeout + CandidateDelay)
        + (ConnectTimeout + Len(endpoints) * EndpointDelay + CandidateDelay)

(* C13: every scan cycle, once begun, returns to the main loop, whatever    *)
(* the scan returned (an error, no entry, any list of entries), whenever    *)
(* the joins succeed or not and whatever the posts answer, the millisecond  *)
(* clock advancing with every delay; and no step of a cycle changes         *)
(* tamaportal_active.                                                       *)
C13_CycleTerminates ==
    /\ (pc # "loop") ~> (pc = "loop")
    /\ [][pc # "loop" => UNCHANGED tamaportal_active]_vars

C13_Witness ==
    /\ pc = "loop"
    /\ lastCall = "toggle"
    /\ ranCycle
    /\ tamaportal_active
    /\ toggles = 1
    /\ clock = TwoCandidateCycle

\* the step is the WebServer handling a POST of the form
Submits ==
    /\ requests' = requests + 1
    /\ lastRequest'.method = "POST"
    /\ lastRequest'.path = "/message"

NoRaw(s) == \A k \in 1..Len(s) : s[k] \notin {"<", ">"}

IsPrefix(p, s) == Len(p) <= Len(s) /\ SubSeq(s, 1, Len(p)) = p

\* the text raw up to and including its k-th character, escaped
EscapedUpTo(raw, k) == Replace(SubSeq(raw, 1, k))

(* C14: the stored text never has more than 100 characters, and the text    *)
(* stored for a submitted text of more than 100 characters has exactly 100. *)
C14_StoredAtMostLimit ==
    /\ [](Len(received_message) <= MessageLimit)
    /\ [][Submits =>
            (Len(lastRequest'.msg) > MessageLimit =>
                Len(received_message') = MessageLimit)]_vars

C14_Witness ==
    /\ requests > 0
    /\ lastRequest.msg = Pad(MessageLimit - 1) \o <<">", "a">>
    /\ Len(received_message) = MessageLimit
    /\ shown.visible

(* C15 as claimed: the stored text has no raw '<' or '>', every one of the  *)
(* submitted text being stored as its whole entity: the stored text is the  *)
(* escaped form of the submitted text up to some character.                 *)
C15_EachStoredAsEntity ==
    [][Submits =>
          /\ NoRaw(received_message')
          /\ \E k \in 0..Len(lastRequest'.msg) :
                received_message' = EscapedUpTo(lastRequest'.msg, k)]_vars

(* C15 amended: the stored text has no raw '<' or '>'. Every '<' or '>' of  *)
(* the submitted text whose entity ends within the first 100 characters of  *)
(* the escaped text is stored as that entity; the one whose entity crosses  *)
(* the 100th character is stored as the beginning of its entity, and what   *)
(* follows it is not stored. submit("<b>hi</b>") stores                     *)
(* "&lt;b&gt;hi&lt;/b&gt;".                                                 *)
C15_EntityOrItsBeginning ==
    [][Submits =>
          /\ NoRaw(received_message')
          /\ \E k \in 0..Len(lastRequest'.msg) :
                /\ IsPrefix(EscapedUpTo(lastRequest'.msg, k), received_message')
                /\ \/ received_message' = EscapedUpTo(lastRequest'.msg, k)
                   \/ /\ k < Len(lastRequest'.msg)
                      /\ lastRequest'.msg[k + 1] \in {"<", ">"}
                      /\ Len(received_message') = MessageLimit
                      /\ IsPrefix(received_message', EscapedUpTo(lastRequest'.msg, k + 1))
          /\ lastRequest'.msg = ExampleText =>
                received_message' =
                    <<"&", "l", "t", ";", "b", "&", "g", "t", ";", "h", "i",
                      "&", "l", "t", ";", "/", "b", "&", "g", "t", ";">>]_vars

C15_Witness ==
    /\ requests > 0
    /\ lastRequest.msg = Pad(MessageLimit - 2) \o <<"<">>
    /\ received_message = Pad(MessageLimit - 2) \o <<"&", "l">>

(* C16 as claimed: the stored text is the submitted text cut to its first   *)
(* 100 characters and then escaped.                                         *)
C16_CutThenEscaped ==
    [][Submits =>
          received_message' = Replace(Substring(lastRequest'.msg, 0, MessageLimit))]_vars

(* C16 amended: the stored text is the submitted text escaped and then cut  *)
(* to its first 100 characters: character for character the escaped text,  *)
(* as long as the escaped text up to 100; an entity that crosses the 100th  *)
(* character is cut in the middle.                                          *)
C16_EscapedThenCut ==
    [][Submits =>
          LET escaped == Replace(lastRequest'.msg)
          IN /\ Len(received_message') =
                    IF Len(escaped) < MessageLimit THEN Len(escaped) ELSE MessageLimit
             /\ \A k \in 1..Len(received_message') : received_message'[k] = escaped[k]]_vars

C16_Witness ==
    /\ requests > 0
    /\ lastRequest.msg = Pad(MessageLimit - 3) \o <<">", "a">>
    /\ received_message = Pad(MessageLimit - 3) \o <<"&", "g", "t">>

\* the overlay of the text first posted by the client of SpecSlot
FirstOverlay ==
    [line1 |-> <<"&", "l", "t", ";", "b", "&", "g", "t", ";">>,
     line2 |-> <<>>,
     visible |-> TRUE]

(* C17: the inbox is one slot: a POST of the form handled while a message   *)
(* is stored, shown or not, puts the new text in its place and sets         *)
(* message_display_time to the instant of that POST, from which the new     *)
(* text is visible for a whole display window.                              *)
C17_SubmitReplaces ==
    [][(Submits /\ Len(received_message) > 0) =>
          /\ received_message' = Substring(Replace(lastRequest'.msg), 0, MessageLimit)
          /\ message_display_time' = clock
          /\ Sub32(clock', message_display_time') = 0]_vars

C17_Witness ==
    /\ requests = 2
    /\ shown = FirstOverlay
    /\ received_message = <<"h", "i">>
    /\ message_display_time > ActivationDelay
    /\ clock = message_display_time

\* the step is a display frame that changes the overlay or the message
Frame ==
    /\ shown' # shown \/ received_message' # received_message
    /\ requests' = requests
    /\ prev_clean_selected' = prev_clean_selected

Visible ==
    /\ Len(received_message) > 0
    /\ Sub32(clock, message_display_time) < MESSAGE_DISPLAY_DURATION

(* C18: a display frame draws the stored text iff the clock is less than    *)
(* 5000 ms past message_display_time: it draws it at                        *)
(* message_display_time + 4999, and the first frame at or after             *)
(* message_display_time + 5000 draws nothing and empties received_message.  *)
C18_VisibleUntilDuration ==
    [][Frame =>
          /\ shown'.visible <=> Visible
          /\ shown'.visible =>
                /\ UNCHANGED received_message
                /\ shown'.line1 \o shown'.line2 = Substring(received_message, 0, 60)
          /\ ~shown'.visible => received_message' = <<>>
          /\ (Len(received_message) > 0
                /\ clock = message_display_time + MESSAGE_DISPLAY_DURATION - 1)
                => shown'.visible
          /\ (Len(received_message) > 0
                /\ clock >= message_display_time + MESSAGE_DISPLAY_DURATION)
                => (~shown'.visible /\ received_message' = <<>>)]_vars

C18_Witness ==
    /\ requests > 0
    /\ Len(lastRequest.msg) > 0
    /\ clock = message_display_time + MESSAGE_DISPLAY_DURATION
    /\ received_message = <<>>
    /\ shown = NoOverlay
    /\ ~cleanIcon /\ ~prev_clean_selected

(* C19: the pass of hal_handler that finds the Clean icon selected, and had *)
(* not found it selected the pass before, leaves received_message empty,    *)
(* even while the message is within its display window; it leaves           *)
(* message_display_time as it is.                                           *)
C19_CleanClears ==
    [][(cleanIcon /\ ~prev_clean_selected /\ prev_clean_selected') =>
          /\ received_message' = <<>>
          /\ UNCHANGED message_display_time]_vars

C19_Witness ==
    /\ requests > 0
    /\ Len(lastRequest.msg) > 0
    /\ received_message = <<>>
    /\ shown.visible
    /\ cleanIcon /\ prev_clean_selected
    /\ Sub32(clock, message_display_time) < MESSAGE_DISPLAY_DURATION

\* PortalMode as the last decision of the controller leaves it: Hosting once
\* a cycle has ended with the request for the hotspot, Idle once a cycle has
\* ended after its injections, Idle while inactive
CycleMode ==
    IF pc = "scan" \/ (pc = "cand" /\ ~foundOpenNetwork) THEN "Scanning"
    ELSE IF pc \in {"cand", "wait", "check", "post"} THEN "Injecting"
    ELSE IF tamaportal_active /\ lastCycle = "fallback" THEN "Hosting"
    ELSE "Idle"

(* C20: the WebServer handles a request, a POST of the form included, only  *)
(* in mode Hosting: never while tamaportal_active is false, and never once  *)
(* a later scan cycle has found an open network, made its injections and    *)
(* ended.                                                                   *)
C20_ServedOnlyWhileHosting ==
    [][requests' = requests + 1 =>
          /\ tamaportal_active
          /\ CycleMode = "Hosting"]_vars

\* a text the /message handler stores as it is
PlainShort(t) == Len(t) <= MessageLimit /\ NoRaw(t)

(* C21 as claimed: the first frame drawn after the POST of a text of at     *)
(* most 100 characters without '<' or '>' shows exactly that text.          *)
C21_NextFrameShowsText ==
    [][(Frame /\ requests = 1 /\ shown = NoOverlay /\ PlainShort(lastRequest.msg)) =>
          /\ shown'.visible
          /\ shown'.line1 \o shown'.line2 = lastRequest.msg]_vars

(* C21 amended: the POST of a text of at most 100 characters without '<' or *)
(* '>' stores exactly that text, and every frame drawn less than 5000 ms    *)
(* after that POST, the text still stored, shows its first 60 characters,   *)
(* 30 in each of two lines ("Hello there" is shown as "Hello there"); a     *)
(* first frame drawn 5000 ms or more after the POST shows nothing.          *)
C21_FrameInWindowShowsText ==
    /\ [][(Submits /\ PlainShort(lastRequest'.msg)) =>
             received_message' = lastRequest'.msg]_vars
    /\ [][(Frame /\ Visible /\ received_message = lastRequest.msg) =>
             /\ shown'.visible
             /\ shown'.line1 = Substring(lastRequest.msg, 0, 30)
             /\ shown'.line2 = Substring(lastRequest.msg, 30, 60)
             /\ Len(lastRequest.msg) <= 60 =>
                   shown'.line1 \o shown'.line2 = lastRequest.msg]_vars
    /\ [][(Frame /\ Len(received_message) > 0 /\ ~Visible) => ~shown'.visible]_vars

C21_Witness ==
    /\ requests = 1
    /\ lastRequest.msg = HelloThere
    /\ received_message = HelloThere
    /\ shown = [line1 |-> HelloThere, line2 |-> <<>>, visible |-> TRUE]

\* the request matches none of the routes registered with on()
Unrouted(req) ==
    /\ req.path # "/"
    /\ ~(req.path = "/message" /\ req.method = "POST")

(* C22: a request that matches no route (an unknown path, with GET or POST, *)
(* and a GET of /message) is answered with status 302 and the header        *)
(* Location: /, and leaves received_message and message_display_time as     *)
(* they are.                                                                *)
C22_UnroutedRedirects ==
    [][(requests' = requests + 1 /\ Unrouted(lastRequest')) =>
          /\ serverReply' = 302
          /\ location' = "/"
          /\ UNCHANGED inboxVars]_vars

C22_Witness ==
    /\ requests = 2
    /\ lastRequest = [method |-> "GET", path |-> "/message", msg |-> <<>>]
    /\ serverReply = 302
    /\ location = "/"
    /\ received_message = <<"h", "i">>
(* C23: the toggle is sampled between the operations of a scan cycle: with  *)
(* a deactivation requested, the step taken from a point between two        *)
(* candidates or between two endpoint attempts deactivates the device and   *)
(* performs none of the cycle's remaining operations.                       *)
C23_RequestStopsCycle ==
    [][(toggleRequested /\ tamaportal_active /\ pc \in {"cand", "post"}) =>
          /\ ~tamaportal_active'
          /\ cycleLog' = cycleLog]_vars
(* C24: while the device stays active two scan cycles never start less     *)
(* than PORTAL_SCAN_INTERVAL apart: a tick starts a cycle only when the     *)
(* cycle before it, the one run by the activation included, started at      *)
(* least the interval earlier.                                              *)
C24_CyclesAnIntervalApart ==
    [][(tamaportal_active /\ cycleStartedAt # -1 /\ pc = "loop" /\ pc' = "scan") =>
          clock' - cycleStartedAt >= PORTAL_SCAN_INTERVAL]_vars
(* C25: after Hosting, a deactivation and a new activation, a scan cycle    *)
(* that again falls back to the hotspot brings the host up again: once the  *)
(* cycle has returned, active and hotspotCreated together mean that the     *)
(* radio is in access-point mode.                                           *)
C25_RestartHostsAgain ==
    (pc = "loop" /\ tamaportal_active /\ lastCycle = "fallback" /\ hotspotCreated) =>
        wifiMode = "AP"
(* C27: from the initial state no sequence of button inputs processed by   *)
(* hal_handler calls the activation toggle: the device is inactive in every *)
(* reachable state, no scan cycle starts, nothing is injected, no hotspot   *)
(* is created and no message is submitted.                                  *)
C27_NeverActivated ==
    /\ ~tamaportal_active
    /\ pc = "loop"
    /\ cycleStartedAt = -1
    /\ cycleLog = <<>>
    /\ ~hotspotCreated
    /\ apStarts = 0
    /\ tamaPortalServer = 0
    /\ requests = 0
    /\ received_message = <<>>

C27_Witness ==
    /\ time_bypass_complete
    /\ pwrDoubleTapped
    /\ lastCall = "tick"
    /\ ~tamaportal_active

(* C28: rapid toggling of the effects flag is prevented: after the hold of *)
(* B has toggled effects_enabled, the passes that follow with B still held  *)
(* and that end before the time the hold timer was set ahead to (5000 ms    *)
(* after the toggle) do not toggle it again.                                *)
C28_HoldTogglesOnce ==
    [][(/\ passes' = passes + 1
        /\ btn_b_was_pressed
        /\ btn_b_was_pressed'
        /\ clock' < btn_b_hold_start) =>
          effects_enabled' = effects_enabled]_vars

(* C29: a double tap of B toggles sound_enabled and not effects_enabled,    *)
(* neither on the pass of the second press nor on a pass that follows it    *)
(* with B still held, less than the hold threshold after the first press.   *)
C29_DoubleTapSparesEffects ==
    [][(passes' = passes + 1) =>
          /\ sound_enabled' # sound_enabled => effects_enabled' = effects_enabled
          /\ (/\ btn_b_hold_start = 0
              /\ btn_b_was_pressed
              /\ btn_b_was_pressed'
              /\ clock' - last_btn_b_press < HoldThreshold) =>
                effects_enabled' = effects_enabled]_vars

(* C30: whenever the HTTP server pointer is non-null the DNS resolver       *)
(* pointer is non-null too, so the request pump, which tests the server     *)
(* pointer only, has a resolver to call.                                    *)
C30_ServerImpliesResolver ==
    tamaPortalServer # 0 => tamaDnsServer # 0

C30_Witness ==
    /\ tamaportal_active
    /\ tamaPortalServer # 0
    /\ tamaDnsServer # 0
    /\ requests = 1
\* the request served last is a POST to /message
Submitted(req) == req.method = "POST" /\ req.path = "/message"

(* C26: an accepted message is shown for a bounded time only: with frames   *)
(* drawn and time passing, a stored non-empty text becomes empty again, and *)
(* an empty slot stays empty until the next submission.                     *)
C26_MessageExpires ==
    /\ (received_message # <<>>) ~> (received_message = <<>>)
    /\ [][(received_message = <<>> /\ received_message' # <<>>) =>
             (requests' = requests + 1 /\ Submitted(lastRequest'))]_vars

C26_Witness ==
    /\ Submitted(lastRequest)
    /\ lastRequest.msg = <<"h", "i">>
    /\ received_message = <<>>
    /\ shown = NoOverlay
    /\ clock = message_display_time + MESSAGE_DISPLAY_DURATION
    /\ ~cleanIcon
    /\ ~prev_clean_selected

====
